---- MODULE Spec2Model ----
(***************************************************************************)
(* Model of the LaTeX output function of living-papers                     *)
(* (src/unnamed/part_000) together with writeFile of src/src/util/fs.js.   *)
(*                                                                         *)
(* Strings are sequences of tokens (characters where the code inspects     *)
(* characters), paths are sequences of file-name segments, and JavaScript  *)
(* values that may be undefined are tagged records.                        *)
(***************************************************************************)
EXTENDS Integers, Sequences, FiniteSets, TLC

VARIABLES
  ast,          \* the document tree: preorder sequence of nodes below the root
  context,      \* { citations, metadata, inputDir, inputFile, outputDir, tempDir }
  options,      \* { pdf, latexDir, vspace }
  pc,           \* position of the run
  dirs,         \* directories created by mkdirp
  placeMap,     \* the Map built by places(ast)
  data,         \* the template data record
  cursor,       \* position of the extract loop in getChildren(ast)
  lookups,      \* template directories tried so far, in order
  pkg,          \* resolved template package
  content,      \* rendered LaTeX source
  issued,       \* operations passed to Promise.all of the write phase
  pending,      \* indices of issued operations not yet settled
  fs,           \* files of the working directory: [path, by], by the index of
                \* the issued operation that wrote it last (0: pdflatex)
  outFiles,     \* files copied to the output directory
  pdflatexCalls,\* number of pdflatex invocations
  pdfCopies,    \* number of attempts to copy the PDF to the output directory
  logged,       \* logger.error calls
  result,       \* value the run returned
  thrown        \* TRUE when the run rejected with an error

vars == <<ast, context, options, pc, dirs, placeMap, data, cursor, lookups, pkg,
          content, issued, pending, fs, outFiles, pdflatexCalls, pdfCopies,
          logged,
          result, thrown>>

----------------------------------------------------------------------------
(* Bounds of the model *)

MaxNodes == 3
MaxBib == 2
MaxFiles == 2
MaxAuthors == 2

----------------------------------------------------------------------------
(* JavaScript values *)

Undefined == [t |-> "undefined"]
Str(s) == [t |-> "string", v |-> s]
NodeRef(i) == [t |-> "node", i |-> i]
List(s) == [t |-> "array", v |-> s]

\* JavaScript truthiness: undefined and '' are falsy, arrays and nodes truthy
Truthy(x) == /\ x.t # "undefined"
             /\ (x.t = "string" => x.v # <<>>)

RECURSIVE Concat(_)
Concat(ss) == IF ss = <<>> THEN <<>> ELSE Head(ss) \o Concat(Tail(ss))

\* Array.prototype.join
RECURSIVE Join(_, _)
Join(ss, sep) ==
  IF ss = <<>> THEN <<>>
  ELSE IF Len(ss) = 1 THEN ss[1]
  ELSE ss[1] \o sep \o Join(Tail(ss), sep)

Last(s) == s[Len(s)]
Front(s) == SubSeq(s, 1, Len(s) - 1)

\* String.prototype.startsWith
startsWith(text, cmd) ==
  /\ Len(text) >= Len(cmd)
  /\ SubSeq(text, 1, Len(cmd)) = cmd

\* String.prototype.indexOf for a single character: 0-based, -1 when absent
indexOf(text, ch) ==
  IF \E k \in 1..Len(text) : text[k] = ch
  THEN (CHOOSE k \in 1..Len(text) :
          /\ text[k] = ch
          /\ \A j \in 1..(k-1) : text[j] # ch) - 1
  ELSE -1

\* String.prototype.slice(start, end): 0-based, end exclusive, a negative
\* end counts from the end of the string
slice(text, start, end) ==
  LET len == Len(text)
      clamp(x) == IF x < 0 THEN (IF len + x < 0 THEN 0 ELSE len + x)
                  ELSE (IF x > len THEN len ELSE x)
      from == clamp(start)
      to == clamp(end)
  IN IF from >= to THEN <<>> ELSE SubSeq(text, from + 1, to)

IsSpace(c) == c \in {" ", "\n"}

\* String.prototype.trim
RECURSIVE trimStart(_)
trimStart(s) ==
  IF s # <<>> /\ IsSpace(Head(s)) THEN trimStart(Tail(s)) ELSE s

RECURSIVE trimEnd(_)
trimEnd(s) ==
  IF s # <<>> /\ IsSpace(Last(s)) THEN trimEnd(Front(s)) ELSE s

trim(s) == trimEnd(trimStart(s))

----------------------------------------------------------------------------
(* Document tree (ast/index.js) *)

\* A node below the root: depth 1 is a direct child of the root, depth 2 a
\* descendant of the closest preceding depth-1 node.
Node(name, depth, props, classes, value) ==
  [name |-> name, depth |-> depth, props |-> props, classes |-> classes,
   value |-> value]

NoProps == [k \in {} |-> <<>>]
Prop(key, val) == [k \in {key} |-> val]

getPropertyValue(node, key) ==
  IF key \in DOMAIN node.props THEN Str(node.props[key]) ELSE Undefined

setValueProperty(node, key, val) ==
  [node EXCEPT !.props =
     [k \in (DOMAIN node.props) \cup {key} |->
        IF k = key THEN val ELSE node.props[k]]]

hasClass(node, c) == c \in node.classes

\* indices of the direct children of the root, in document order
getChildren(tree) == SelectSeq([k \in 1..Len(tree) |-> k],
                               LAMBDA k : tree[k].depth = 1)

\* visitNodes(ast, fn) calls fn on every node of the tree, in document order
visitOrder(tree) == [k \in 1..Len(tree) |-> k]

----------------------------------------------------------------------------
(* places(ast) *)

cmd == <<"\\", "p", "l", "a", "c", "e", "{">>

MapSet(map, key, val) ==
  [k \in (DOMAIN map) \cup {key} |-> IF k = key THEN val ELSE map[k]]

EmptyMap == [k \in {} |-> Undefined]

IsTexRaw(node) ==
  ~ (node.name # "raw" \/ getPropertyValue(node, "format") # Str(<<"tex">>))

\* identifier a placement directive yields: text.slice(cmd.length, text.indexOf('}'))
placeId(text) == slice(text, Len(cmd), indexOf(text, "}"))

\* first visitNodes pass, over the nodes order[k..]; returns tree and map
RECURSIVE pass1(_, _, _, _)
pass1(tree, map, order, k) ==
  IF k > Len(order) THEN [tree |-> tree, places |-> map]
  ELSE LET n == order[k]
           node == tree[n]
       IN IF ~ IsTexRaw(node) THEN pass1(tree, map, order, k + 1)
          ELSE IF startsWith(node.value, cmd)
               THEN LET id == placeId(node.value)
                    IN pass1([tree EXCEPT ![n] = setValueProperty(node, "place", id)],
                             MapSet(map, id, Str(<<>>)), order, k + 1)
               ELSE pass1(tree, map, order, k + 1)

\* second visitNodes pass
RECURSIVE pass2(_, _, _, _)
pass2(tree, map, order, k) ==
  IF k > Len(order) THEN map
  ELSE LET n == order[k]
           node == tree[n]
       IN IF node.name = "figure"
          THEN LET id == getPropertyValue(node, "id")
               IN IF Truthy(id) /\ id.v \in DOMAIN map
                  THEN pass2(tree, MapSet(map, id.v, NodeRef(n)), order, k + 1)
                  ELSE pass2(tree, map, order, k + 1)
          ELSE pass2(tree, map, order, k + 1)

places(tree) ==
  LET p1 == pass1(tree, EmptyMap, visitOrder(tree), 1)
  IN [tree |-> p1.tree,
      places |-> IF Cardinality(DOMAIN p1.places) # 0
                 THEN pass2(p1.tree, p1.places, visitOrder(p1.tree), 1)
                 ELSE p1.places]

----------------------------------------------------------------------------
(* TexFormat (tex-format.js) *)

\* escaping of the characters that are special in LaTeX
RECURSIVE texEscape(_)
texEscape(s) ==
  IF s = <<>> THEN <<>>
  ELSE (IF Head(s) \in {"&", "%"} THEN <<"\\", Head(s)>> ELSE <<Head(s)>>)
       \o texEscape(Tail(s))

\* tex.string(raw_text)
texString(s) == texEscape(s)

\* the nodes below a direct child of the root: its descendants
RECURSIVE descendants(_, _)
descendants(tree, n) ==
  IF n + 1 > Len(tree) \/ tree[n + 1].depth = 1 THEN <<>>
  ELSE <<n + 1>> \o descendants(tree, n + 1)

\* tex.fragment(node): the node's inner content
texFragment(tree, n) ==
  texEscape(tree[n].value)
    \o Concat([k \in 1..Len(descendants(tree, n)) |->
                 texEscape(tree[descendants(tree, n)[k]].value)])

\* tex.tex(ast): the whole document
texDocument(tree) ==
  Join([k \in 1..Len(tree) |-> texEscape(tree[k].value)], <<"\n">>)

\* tex.tex(value) of a scalar, absent for an absent input
texScalar(x) == IF Truthy(x) THEN Str(texEscape(x.v)) ELSE Undefined

\* tex.vspace({ name })
texVspace(vspace, name) ==
  IF name \in DOMAIN vspace THEN vspace[name] ELSE <<>>

\* tex.label(node, 'fig')
texLabel(node, category) ==
  LET id == getPropertyValue(node, "id")
  IN IF Truthy(id) THEN <<"\\label{", category, ":">> \o id.v \o <<"}">>
     ELSE <<>>

----------------------------------------------------------------------------
(* extractNode / extractContent *)

extractContent(name, tree, n, vspace) ==
  texVspace(vspace, name)
    \o trim(texFragment(tree, n))
    \o texLabel(tree[n], "fig")

extractNode(tree, n, vspace) ==
  LET node == tree[n]
      name == CASE node.name \in {"abstract", "acknowledgments"} -> Str(<<node.name>>)
                [] node.name = "figure" ->
                     IF hasClass(node, "teaser") THEN Str(<<"teaser">>) ELSE Undefined
                [] OTHER -> Undefined
  IN IF node.name = "latex:preamble"
     THEN [t |-> "extract", name |-> "preamble", content |-> node.value]
     ELSE IF Truthy(name)
          THEN [t |-> "extract", name |-> name.v[1],
                content |-> extractContent(name.v[1], tree, n, vspace)]
          ELSE Undefined

----------------------------------------------------------------------------
(* paths (node:path) *)

\* a path is a sequence of segments, a segment a sequence of tokens
pathJoin(dir, seg) == dir \o <<seg>>
parseBase(path) == Last(path)
\* path.parse(p).name: the base name without its extension
parseName(path) ==
  LET base == Last(path)
  IN IF Len(base) > 1 THEN Front(base) ELSE base

articleName == parseName(context.inputFile)

\* variant: the default working directory ignores the pdf option
latexDirAlwaysTemp ==
  IF options.latexDir.t # "undefined" THEN options.latexDir.v
  ELSE pathJoin(context.tempDir, <<"latex">>)

\* latexDir = path.join(pdf ? tempDir : outputDir, 'latex') unless given
latexDir ==
  IF options.latexDir.t # "undefined" THEN options.latexDir.v
  ELSE pathJoin(IF options.pdf THEN context.tempDir ELSE context.outputDir,
                <<"latex">>)

\* citations?.bibtex?.length > 0
bibtex ==
  /\ context.citations.t # "undefined"
  /\ context.citations.bibtex.t # "undefined"
  /\ Len(context.citations.bibtex.v) > 0

----------------------------------------------------------------------------
(* template data *)

UnknownAuthor == [name |-> <<"Unknown Author">>]

\* metadata.author || [{name: 'Unknown Author'}]
authorList(metadata) ==
  IF Truthy(metadata.author) THEN metadata.author.v ELSE <<UnknownAuthor>>

orElse(x, fallback) == IF Truthy(x) THEN x ELSE fallback

\* getDate(): today's date in long format
getDate == <<"today">>

marshal(tree, metadata) ==
  LET author == authorList(metadata)
  IN [k \in {"date", "title", "author", "author_first", "author_rest",
             "author_names", "title_short", "author_short", "bibtex",
             "keywords", "preamble", "content"} |->
       CASE k = "date" -> orElse(texScalar(metadata.date), Str(getDate))
         [] k = "title" -> orElse(texScalar(metadata.title), Str(<<"Untitled Article">>))
         [] k = "author" -> List(author)
         [] k = "author_first" ->
              IF Len(author) > 0 THEN [t |-> "author", v |-> author[1]] ELSE Undefined
         [] k = "author_rest" -> List(SubSeq(author, 2, Len(author)))
         [] k = "author_names" ->
              Str(Join([i \in 1..Len(author) |-> author[i].name], <<", ">>))
         [] k = "title_short" -> texScalar(metadata.title_short)
         [] k = "author_short" -> texScalar(metadata.author_short)
         [] k = "bibtex" ->
              IF bibtex THEN Str(articleName \o <<".bib">>) ELSE Undefined
         [] k = "keywords" ->
              IF metadata.keywords = Undefined THEN Undefined
              ELSE Str(Join(metadata.keywords.v, <<", ">>))
         [] k = "preamble" -> Str(<<"\\graphicspath{{", "inputDir", "}}", "\n">>)
         [] k = "content" -> Str(trim(texDocument(tree)))]

\* variant: a later node's content is put in front of the block
prependBlock(d, name, text) ==
  MapSet(d, name,
         Str(text
             \o (IF name \in DOMAIN d /\ Truthy(d[name]) THEN d[name].v ELSE <<>>)))

\* data[name] = (data[name] || '') + content
appendBlock(d, name, text) ==
  MapSet(d, name,
         Str((IF name \in DOMAIN d /\ Truthy(d[name]) THEN d[name].v ELSE <<>>)
             \o text))

----------------------------------------------------------------------------
(* templates *)

Lit(s) == [t |-> "lit", v |-> s]
Var(name) == [t |-> "var", name |-> name]

\* mustache.render(tmpl, data, {}, { tags, escape: x => x })
RECURSIVE render(_, _)
render(tmpl, d) ==
  IF tmpl = <<>> THEN <<>>
  ELSE LET item == Head(tmpl)
       IN (IF item.t = "lit" THEN item.v
           ELSE IF item.name \in DOMAIN d /\ d[item.name].t = "string"
                THEN d[item.name].v ELSE <<>>)
          \o render(Tail(tmpl), d)

userDir(id) == <<id>>
builtinDir(id) == <<<<"latex-templates">>, id>>

\* writeFile(path, data): data ? fs.writeFile(path, data) : null
writeFile(path, text) ==
  IF text # <<>> THEN [kind |-> "write", path |-> path, data |-> text]
  ELSE [kind |-> "null"]

copy(from, to) == [kind |-> "copy", path |-> to, src |-> from]

\* the operations handed to Promise.all in the write phase
writeOps ==
  <<writeFile(pathJoin(latexDir, articleName \o <<".tex">>), content)>>
  \o (IF bibtex
      THEN <<writeFile(pathJoin(latexDir, articleName \o <<".bib">>),
                       texString(Join(context.citations.bibtex.v, <<"\n\n">>)))>>
      ELSE <<>>)
  \o (LET files == IF Truthy(pkg.files) THEN pkg.files.v ELSE <<>>
      IN [k \in 1..Len(files) |->
            copy(pkg.dir \o files[k], pathJoin(latexDir, parseBase(files[k])))])

----------------------------------------------------------------------------
(* inputs *)

PlaceA == cmd \o <<"a", "}">>
PlaceAB == cmd \o <<"a", "b", "}">>
PlaceOpen == cmd \o <<"a", "b">>

TexRaw(depth, text) == Node("raw", depth, Prop("format", <<"tex">>), {}, text)
HtmlRaw(depth, text) == Node("raw", depth, Prop("format", <<"html">>), {}, text)
Figure(depth, id, classes) ==
  Node("figure", depth, IF id = <<>> THEN NoProps ELSE Prop("id", id), classes, <<"c", " ">>)

\* nodes of the trees place resolution is run on
PlaceNodes ==
  UNION {{ TexRaw(d, PlaceA), TexRaw(d, PlaceAB), TexRaw(d, PlaceOpen),
           TexRaw(d, <<"x", "}">>), HtmlRaw(d, PlaceA),
           Figure(d, <<"a">>, {}), Figure(d, <<"a", "b">>, {}),
           Figure(d, <<>>, {}),
           Node("p", d, NoProps, {}, <<"t">>) } : d \in 1..2}

\* nodes of the trees block extraction is run on
ExtractNodes ==
  UNION {{ Node("abstract", d, NoProps, {}, <<" ", "s", "&", " ">>),
           Node("acknowledgments", d, NoProps, {}, <<"k", " ">>),
           Node("acknowledgments", d, Prop("id", <<"a">>), {}, <<"m">>),
           Node("latex:preamble", d, NoProps, {}, <<"\\usepackage{x}", " ">>),
           Figure(d, <<"a">>, {"teaser"}),
           Figure(d, <<"b">>, {}),
           Node("p", d, NoProps, {}, <<"t">>) } : d \in 1..2}

SeqsUpTo(S, n) == UNION {[1..k -> S] : k \in 0..n}

\* a document tree: the first node is a child of the root, and node
\* identifiers are unique across the tree
WellFormedTree(tree) ==
  /\ (tree # <<>> => tree[1].depth = 1)
  /\ \A i, j \in {k \in 1..Len(tree) : "id" \in DOMAIN tree[k].props} :
       tree[i].props["id"] = tree[j].props["id"] => i = j

Trees(nodes) == {tree \in SeqsUpTo(nodes, MaxNodes) : WellFormedTree(tree)}

RunTrees ==
  { <<>>,
    << Node("acknowledgments", 1, NoProps, {}, <<"k", "&">>),
       TexRaw(1, PlaceA), Figure(2, <<"a">>, {}) >> }

AuthorA == [name |-> <<"Ada">>]
AuthorB == [name |-> <<"Bo">>]

Meta(author, title, keywords) ==
  [author |-> author, title |-> title, keywords |-> keywords,
   date |-> Undefined, title_short |-> Undefined, author_short |-> Undefined]

NoMeta == Meta(Undefined, Undefined, Undefined)

Metas ==
  { Meta(a, t, k) :
      a \in {Undefined} \cup {List(s) : s \in SeqsUpTo({AuthorA, AuthorB}, MaxAuthors)},
      t \in {Undefined, Str(<<"T", "&">>)},
      k \in {Undefined, List(<<<<"k1">>, <<"k2">>>>)} }

RunMetas == { NoMeta,
              Meta(List(<<AuthorA, AuthorB>>), Str(<<"T">>), Undefined) }

BibEntries == { <<>>, <<"@", "&">> }

Citations ==
  { Undefined, [t |-> "citations", bibtex |-> Undefined] }
  \cup { [t |-> "citations", bibtex |-> List(s)] : s \in SeqsUpTo(BibEntries, MaxBib) }

Vspaces ==
  { [k \in {} |-> <<>>],
    [k \in {"acknowledgments", "teaser", "preamble"} |-> <<"\\vspace{1em}">>] }

InputFile == <<<<"docs">>, <<"paper", ".md">>>>

AuxPaths ==
  { <<<<"img">>, <<"logo", ".pdf">>>>,
    <<<<"alt">>, <<"logo", ".pdf">>>>,
    <<<<"paper", ".tex">>>> }

\* manifests (package.json) a template directory may hold
Manifests ==
  { [template |-> <<"template", ".tex">>, files |-> f] :
      f \in {Undefined} \cup {List(s) : s \in SeqsUpTo(AuxPaths, MaxFiles)} }

\* contents a template file may have
Templates ==
  { <<>>,
    <<Lit(<<"\\documentclass">>), Var("title"), Var("acknowledgments"),
      Var("content"), Var("bibtex")>>,
    <<Var("content")>> }

Contexts(cits, metas) ==
  { [citations |-> c, metadata |-> m, inputDir |-> <<<<"docs">>>>,
     inputFile |-> InputFile, outputDir |-> <<<<"out">>>>,
     tempDir |-> <<<<"tmp">>>>] : c \in cits, m \in metas }

Options(vs) ==
  { [pdf |-> p, latexDir |-> l, vspace |-> v] :
      p \in BOOLEAN, l \in {Undefined, [t |-> "path", v |-> <<<<"work">>>>]},
      v \in vs }

----------------------------------------------------------------------------
(* state after the call, before the first statement *)

InitState ==
  /\ pc = "start"
  /\ dirs = {}
  /\ placeMap = EmptyMap
  /\ data = [k \in {} |-> Undefined]
  /\ cursor = 1
  /\ lookups = <<>>
  /\ pkg = Undefined
  /\ content = <<>>
  /\ issued = <<>>
  /\ pending = {}
  /\ fs = {}
  /\ outFiles = {}
  /\ pdflatexCalls = 0
  /\ pdfCopies = 0
  /\ logged = 0
  /\ result = Undefined
  /\ thrown = FALSE

Init ==
  /\ ast \in RunTrees
  /\ context \in Contexts(Citations, RunMetas)
  /\ options \in Options({[k \in {} |-> <<>>]})
  /\ InitState

InitPlaces ==
  /\ ast \in Trees(PlaceNodes)
  /\ context \in Contexts({Undefined}, RunMetas)
  /\ options \in Options({[k \in {} |-> <<>>]})
  /\ InitState

InitExtract ==
  /\ ast \in Trees(ExtractNodes)
  /\ context \in Contexts({Undefined}, {NoMeta})
  /\ options \in {o \in Options(Vspaces) : o.pdf /\ o.latexDir = Undefined}
  /\ InitState

InitData ==
  /\ ast \in RunTrees
  /\ context \in Contexts(Citations, Metas)
  /\ options \in {o \in Options(Vspaces) : o.latexDir = Undefined}
  /\ InitState

----------------------------------------------------------------------------
(* the run of the output function *)

runVars == <<ast, context, options>>

\* await Promise.all([mkdirp(outputDir), mkdirp(latexDir)]); a failure to
\* create a directory is not modelled
Mkdirs ==
  /\ pc = "start"
  /\ dirs' = dirs \cup {context.outputDir, latexDir}
  /\ pc' = "places"
  /\ UNCHANGED <<ast, context, options, placeMap, data, cursor, lookups, pkg,
                 content, issued, pending, fs, outFiles, pdflatexCalls,
                 pdfCopies, logged, result, thrown>>

\* places: places(ast), evaluated while the formatter is constructed
ResolvePlaces ==
  /\ pc = "places"
  /\ LET r == places(ast)
     IN /\ ast' = r.tree
        /\ placeMap' = r.places
  /\ pc' = "marshal"
  /\ UNCHANGED <<context, options, dirs, data, cursor, lookups, pkg, content,
                 issued, pending, fs, outFiles, pdflatexCalls, pdfCopies,
                 logged, result, thrown>>

\* const author = ...; const data = { ... }
Marshal ==
  /\ pc = "marshal"
  /\ data' = marshal(ast, context.metadata)
  /\ cursor' = 1
  /\ pc' = IF getChildren(ast) = <<>> THEN "resolve" ELSE "extract"
  /\ UNCHANGED <<ast, context, options, dirs, placeMap, lookups, pkg, content,
                 issued, pending, fs, outFiles, pdflatexCalls, pdfCopies,
                 logged, result, thrown>>

\* one iteration of getChildren(ast).forEach(node => ...)
ExtractChild ==
  /\ pc = "extract"
  /\ LET children == getChildren(ast)
         extract == extractNode(ast, children[cursor], options.vspace)
     IN /\ data' = IF extract.t = "extract"
                   THEN appendBlock(data, extract.name, extract.content)
                   ELSE data
        /\ pc' = IF cursor = Len(children) THEN "resolve" ELSE "extract"
  /\ cursor' = cursor + 1
  /\ UNCHANGED <<ast, context, options, dirs, placeMap, lookups, pkg, content,
                 issued, pending, fs, outFiles, pdflatexCalls, pdfCopies,
                 logged, result, thrown>>

TemplateId == <<"article">>

\* resolveTemplate: loadTemplate(id) relative to the current directory
LoadUserTemplate ==
  /\ pc = "resolve"
  /\ \/ \E m \in Manifests :
          /\ pkg' = [t |-> "pkg", template |-> m.template, files |-> m.files,
                     dir |-> userDir(TemplateId)]
          /\ lookups' = Append(lookups, [dir |-> userDir(TemplateId), ok |-> TRUE])
          /\ pc' = "read"
     \/ /\ lookups' = Append(lookups, [dir |-> userDir(TemplateId), ok |-> FALSE])
        /\ pc' = "fallback"
        /\ UNCHANGED pkg
  /\ UNCHANGED <<ast, context, options, dirs, placeMap, data, cursor, content,
                 issued, pending, fs, outFiles, pdflatexCalls, pdfCopies,
                 logged, result, thrown>>

\* variant: a failed built-in lookup is absorbed and the run goes on with an
\* empty package
LoadBuiltinTemplateAbsorbing ==
  /\ pc = "fallback"
  /\ \/ \E m \in Manifests :
          /\ pkg' = [t |-> "pkg", template |-> m.template, files |-> m.files,
                     dir |-> builtinDir(TemplateId)]
          /\ lookups' = Append(lookups, [dir |-> builtinDir(TemplateId), ok |-> TRUE])
     \/ /\ lookups' = Append(lookups, [dir |-> builtinDir(TemplateId), ok |-> FALSE])
        /\ pkg' = [t |-> "pkg", template |-> <<"template", ".tex">>,
                   files |-> Undefined, dir |-> builtinDir(TemplateId)]
  /\ pc' = "read"
  /\ UNCHANGED <<ast, context, options, dirs, placeMap, data, cursor, content,
                 issued, pending, fs, outFiles, pdflatexCalls, pdfCopies,
                 logged, result, thrown>>

\* resolveTemplate, catch branch: loadTemplate of the built-in directory
LoadBuiltinTemplate ==
  /\ pc = "fallback"
  /\ \/ \E m \in Manifests :
          /\ pkg' = [t |-> "pkg", template |-> m.template, files |-> m.files,
                     dir |-> builtinDir(TemplateId)]
          /\ lookups' = Append(lookups, [dir |-> builtinDir(TemplateId), ok |-> TRUE])
          /\ pc' = "read"
          /\ UNCHANGED thrown
     \/ /\ lookups' = Append(lookups, [dir |-> builtinDir(TemplateId), ok |-> FALSE])
        /\ pc' = "thrown"
        /\ thrown' = TRUE
        /\ UNCHANGED pkg
  /\ UNCHANGED <<ast, context, options, dirs, placeMap, data, cursor, content,
                 issued, pending, fs, outFiles, pdflatexCalls, pdfCopies,
                 logged, result>>

\* readFile of the template file and mustache.render
ReadAndRender ==
  /\ pc = "read"
  /\ \/ \E tmpl \in Templates :
          /\ content' = render(tmpl, data)
          /\ pc' = "write"
          /\ UNCHANGED thrown
     \/ /\ pc' = "thrown"
        /\ thrown' = TRUE
        /\ UNCHANGED content
  /\ UNCHANGED <<ast, context, options, dirs, placeMap, data, cursor, lookups,
                 pkg, issued, pending, fs, outFiles, pdflatexCalls, pdfCopies,
                 logged, result>>

\* the argument list of Promise.all is evaluated: every operation starts
Emit ==
  /\ pc = "write"
  /\ issued' = writeOps
  /\ pending' = {k \in 1..Len(writeOps) : writeOps[k].kind # "null"}
  /\ pc' = "emit"
  /\ UNCHANGED <<ast, context, options, dirs, placeMap, data, cursor, lookups,
                 pkg, content, fs, outFiles, pdflatexCalls, pdfCopies, logged,
                 result, thrown>>

\* one of the started operations completes
CompleteWrite ==
  /\ \E k \in pending :
       /\ fs' = {f \in fs : f.path # issued[k].path}
                  \cup {[path |-> issued[k].path, by |-> k]}
       /\ pending' = pending \ {k}
  /\ UNCHANGED <<ast, context, options, pc, dirs, placeMap, data, cursor,
                 lookups, pkg, content, issued, outFiles, pdflatexCalls,
                 pdfCopies, logged, result, thrown>>

\* one of the started operations fails: Promise.all rejects and the run throws
FailWrite ==
  /\ \E k \in pending :
       /\ pending' = pending \ {k}
  /\ pc' = IF pc = "emit" THEN "thrown" ELSE pc
  /\ thrown' = TRUE
  /\ UNCHANGED <<ast, context, options, dirs, placeMap, data, cursor, lookups,
                 pkg, content, issued, fs, outFiles, pdflatexCalls, pdfCopies,
                 logged, result>>

PdfName == articleName \o <<".pdf">>

\* variant: a failed invocation is attempted once more
RunPdflatexRetrying ==
  /\ pc = "emit"
  /\ pending = {}
  /\ options.pdf
  /\ pdflatexCalls < 2
  /\ pdflatexCalls' = pdflatexCalls + 1
  /\ \/ /\ fs' = {f \in fs : f.path # pathJoin(latexDir, PdfName)}
                   \cup {[path |-> pathJoin(latexDir, PdfName), by |-> 0]}
        /\ pc' = "copy"
        /\ UNCHANGED logged
     \/ /\ logged' = logged + 1
        /\ pc' = IF pdflatexCalls = 0 THEN "emit" ELSE "done"
        /\ UNCHANGED fs
  /\ UNCHANGED <<ast, context, options, dirs, placeMap, data, cursor, lookups,
                 pkg, content, issued, pending, outFiles, pdfCopies, result,
                 thrown>>

\* if (pdf) { try { await pdflatex(latexDir, articleName, bibtex) ...
RunPdflatex ==
  /\ pc = "emit"
  /\ pending = {}
  /\ options.pdf
  /\ pdflatexCalls' = pdflatexCalls + 1
  /\ \/ /\ fs' = {f \in fs : f.path # pathJoin(latexDir, PdfName)}
                   \cup {[path |-> pathJoin(latexDir, PdfName), by |-> 0]}
        /\ pc' = "copy"
        /\ UNCHANGED logged
     \/ /\ logged' = logged + 1
        /\ pc' = "done"
        /\ UNCHANGED fs
  /\ UNCHANGED <<ast, context, options, dirs, placeMap, data, cursor, lookups,
                 pkg, content, issued, pending, outFiles, pdfCopies, result,
                 thrown>>

\* await copy(<latexDir>/<name>.pdf, <outputDir>/<name>.pdf); return the path
CopyPdf ==
  /\ pc = "copy"
  /\ pdfCopies' = pdfCopies + 1
  /\ \/ /\ outFiles' = outFiles \cup {pathJoin(context.outputDir, PdfName)}
        /\ result' = [t |-> "path", v |-> pathJoin(context.outputDir, PdfName)]
        /\ UNCHANGED logged
     \/ /\ logged' = logged + 1
        /\ UNCHANGED <<outFiles, result>>
  /\ pc' = "done"
  /\ UNCHANGED <<ast, context, options, dirs, placeMap, data, cursor, lookups,
                 pkg, content, issued, pending, fs, pdflatexCalls, thrown>>

\* } else { return latexDir; }
ReturnLatexDir ==
  /\ pc = "emit"
  /\ pending = {}
  /\ ~ options.pdf
  /\ result' = [t |-> "path", v |-> latexDir]
  /\ pc' = "done"
  /\ UNCHANGED <<ast, context, options, dirs, placeMap, data, cursor, lookups,
                 pkg, content, issued, pending, fs, outFiles, pdflatexCalls,
                 pdfCopies, logged, thrown>>

Next ==
  \/ Mkdirs
  \/ ResolvePlaces
  \/ Marshal
  \/ ExtractChild
  \/ LoadUserTemplate
  \/ LoadBuiltinTemplate
  \/ ReadAndRender
  \/ Emit
  \/ CompleteWrite
  \/ FailWrite
  \/ RunPdflatex
  \/ CopyPdf
  \/ ReturnLatexDir

Spec == Init /\ [][Next]_vars

\* place resolution over bounded document trees
NextPlaces == Mkdirs \/ ResolvePlaces
SpecPlaces == InitPlaces /\ [][NextPlaces]_vars

\* block extraction over bounded document trees
NextExtract == Mkdirs \/ ResolvePlaces \/ Marshal \/ ExtractChild
SpecExtract == InitExtract /\ [][NextExtract]_vars

\* data marshalling over bounded metadata records and citation bundles
NextData == Mkdirs \/ ResolvePlaces \/ Marshal \/ ExtractChild
SpecData == InitData /\ [][NextData]_vars

----------------------------------------------------------------------------
(* Properties of the run (specification Spec) *)

Ended == pc \in {"done", "thrown"}

\* the working directory a run without PDF production is specified to use
ExpectedSourceDir ==
  IF options.latexDir = Undefined THEN <<<<"out">>, <<"latex">>>>
  ELSE options.latexDir.v

TexPath == pathJoin(latexDir, articleName \o <<".tex">>)
BibPath == pathJoin(latexDir, articleName \o <<".bib">>)
Written(path) == \E f \in fs : f.path = path

\* C1, as stated: every run with pdf = false returns the working directory
\* path, and pdflatex is never invoked in such a run.
C1_EveryRunReturnsLatexDir ==
  ~ options.pdf =>
    /\ pdflatexCalls = 0
    /\ (Ended => result = [t |-> "path", v |-> ExpectedSourceDir])

\* C1, amended: a run with pdf = false never invokes pdflatex, and when it
\* ends without throwing an error it returns the working directory path.
C1_ReturnsLatexDirUnlessThrown ==
  ~ options.pdf =>
    /\ pdflatexCalls = 0
    /\ pdfCopies = 0
    /\ (pc = "done" => result = [t |-> "path", v |-> ExpectedSourceDir])

C1_Witness ==
  /\ ~ options.pdf
  /\ pc = "done"
  /\ options.latexDir = Undefined
  /\ result = [t |-> "path", v |-> <<<<"out">>, <<"latex">>>>]

\* the single compiler invocation of the run has failed
CompilerFailed == pc = "done" /\ pdflatexCalls = 1 /\ pdfCopies = 0

\* C2: when the invocation of pdflatex fails the run returns undefined
\* without throwing, and <name>.tex is already in the working directory.
C2_SourceOnDiskWhenCompilerFails ==
  CompilerFailed =>
    /\ ~ thrown
    /\ result = Undefined
    /\ Written(TexPath)

BothLookupsFailed == Len(lookups) = 2 /\ ~ lookups[2].ok

\* C3: the built-in template directory is tried only after the user-relative
\* lookup failed; when the built-in lookup fails too the error reaches the
\* caller, nothing has been written and pdflatex is never invoked.
C3_TemplateFailureIsFatal ==
  /\ Len(lookups) <= 2
  /\ (Len(lookups) >= 1 => lookups[1].dir = userDir(TemplateId))
  /\ (Len(lookups) = 2 =>
        /\ ~ lookups[1].ok
        /\ lookups[2].dir = builtinDir(TemplateId))
  /\ (BothLookupsFailed =>
        /\ thrown
        /\ pc = "thrown"
        /\ result = Undefined
        /\ issued = <<>>
        /\ pending = {}
        /\ fs = {}
        /\ outFiles = {}
        /\ pdflatexCalls = 0)

C3_Witness == BothLookupsFailed /\ thrown /\ dirs # {}

WritePhaseDone ==
  \/ pc = "emit" /\ pending = {}
  \/ pc \in {"copy", "done"}

NonEmptyEntries ==
  /\ context.citations # Undefined
  /\ context.citations.bibtex # Undefined
  /\ context.citations.bibtex.v # <<>>

\* C6: <name>.bib is written exactly when the citation bundle has a non-empty
\* sequence of bibliography entries, and the bibtex field of the render data
\* is present in exactly those runs.
C6_BibFileIffEntries ==
  /\ ("bibtex" \in DOMAIN data => (data["bibtex"] # Undefined <=> NonEmptyEntries))
  /\ (Written(BibPath) => NonEmptyEntries)
  /\ (WritePhaseDone => (Written(BibPath) <=> NonEmptyEntries))

\* C8: the operations started together in the write phase target pairwise
\* distinct paths.
C8_DistinctWritePaths ==
  \A i, j \in {k \in 1..Len(issued) : issued[k].kind # "null"} :
    i # j => issued[i].path # issued[j].path

\* C10: pdflatex is invoked at most once; after a failed invocation there is
\* no further invocation and no PDF copy, the failure is logged and the run
\* ends without a result; a PDF path is returned only after the invocation
\* succeeded and the copy to the output directory completed.
C10_SingleCompilerInvocation ==
  /\ pdflatexCalls <= 1
  /\ pdfCopies <= pdflatexCalls
  /\ (CompilerFailed => logged = 1 /\ result = Undefined /\ outFiles = {})
  /\ (logged >= 1 => logged = 1 /\ pc = "done" /\ result = Undefined)
  /\ (pc = "done" /\ options.pdf /\ result = Undefined => logged = 1)
  /\ (result # Undefined /\ options.pdf =>
        /\ result = [t |-> "path", v |-> pathJoin(context.outputDir, PdfName)]
        /\ pdflatexCalls = 1
        /\ pdfCopies = 1
        /\ logged = 0
        /\ result.v \in outFiles
        /\ Written(pathJoin(latexDir, PdfName)))

C10_Witness == CompilerFailed /\ logged = 1 /\ options.pdf /\ ~ thrown

----------------------------------------------------------------------------
(* Properties of place resolution (specification SpecPlaces) *)

PlacesDone == pc = "marshal"

HasClosingBrace(text) == \E k \in 1..Len(text) : text[k] = "}"

\* a raw tex node whose text starts with \place{ and never closes the brace
Malformed(node) ==
  /\ node.name = "raw"
  /\ "format" \in DOMAIN node.props
  /\ node.props["format"] = <<"tex">>
  /\ startsWith(node.value, cmd)
  /\ ~ HasClosingBrace(node.value)

\* a raw tex node holding a directive \place{<id>}
Directive(node) ==
  /\ node.name = "raw"
  /\ "format" \in DOMAIN node.props
  /\ node.props["format"] = <<"tex">>
  /\ startsWith(node.value, cmd)
  /\ HasClosingBrace(node.value)

\* the identifier between \place{ and the first closing brace
DirectiveId(text) ==
  LET close == CHOOSE k \in 1..Len(text) :
                 /\ text[k] = "}"
                 /\ \A j \in 1..(k - 1) : text[j] # "}"
  IN SubSeq(text, Len(cmd) + 1, close - 1)

ClaimedIds(tree) ==
  {DirectiveId(tree[k].value) : k \in {n \in 1..Len(tree) : Directive(tree[n])}}

FiguresWithId(tree, id) ==
  {k \in 1..Len(tree) :
     /\ tree[k].name = "figure"
     /\ "id" \in DOMAIN tree[k].props
     /\ tree[k].props["id"] = id}

\* C4: a raw tex node starting with \place{ without a closing brace is
\* treated as having no identifier: it gets no place property and adds no
\* entry to the place map.
C4_MalformedDirectiveIgnored ==
  PlacesDone =>
    /\ \A k \in 1..Len(ast) :
         Malformed(ast[k]) => "place" \notin DOMAIN ast[k].props
    /\ DOMAIN placeMap \subseteq ClaimedIds(ast)

\* C5: the place map has exactly one entry per identifier claimed by a
\* \place{<id>} directive, bound to a figure with that id when one exists in
\* the tree and to the empty placeholder otherwise.
C5_PlaceMapMatchesDirectives ==
  PlacesDone =>
    /\ DOMAIN placeMap = ClaimedIds(ast)
    /\ \A id \in DOMAIN placeMap :
         IF FiguresWithId(ast, id) # {}
         THEN \E k \in FiguresWithId(ast, id) : placeMap[id] = NodeRef(k)
         ELSE placeMap[id] = Str(<<>>)

----------------------------------------------------------------------------
(* Properties of block extraction (specification SpecExtract) *)

ExtractDone == pc = "resolve"

\* the direct children of the root that extract to a block name
BlockSources(tree, name) ==
  SelectSeq(getChildren(tree),
            LAMBDA k :
              CASE name = "teaser" ->
                     tree[k].name = "figure" /\ "teaser" \in tree[k].classes
                [] name = "preamble" -> tree[k].name = "latex:preamble"
                [] OTHER -> tree[k].name = name)

\* vertical-space command, trimmed inner fragment, figure label
SpecifiedContent(tree, k, name) ==
  (IF name \in DOMAIN options.vspace THEN options.vspace[name] ELSE <<>>)
    \o trim(texFragment(tree, k))
    \o (IF "id" \in DOMAIN tree[k].props
        THEN <<"\\label{", "fig", ":">> \o tree[k].props["id"] \o <<"}">>
        ELSE <<>>)

RECURSIVE SpecifiedBlock(_, _, _)
SpecifiedBlock(tree, srcs, name) ==
  IF srcs = <<>> THEN <<>>
  ELSE SpecifiedContent(tree, Head(srcs), name)
       \o SpecifiedBlock(tree, Tail(srcs), name)

RECURSIVE VerbatimBlock(_, _)
VerbatimBlock(tree, srcs) ==
  IF srcs = <<>> THEN <<>>
  ELSE tree[Head(srcs)].value \o VerbatimBlock(tree, Tail(srcs))

BlockNames == {"abstract", "acknowledgments", "teaser", "preamble"}

\* C7, as stated: a block that several direct children of the root extract
\* to is the concatenation, in document order, of space command, trimmed
\* fragment and label of each of them.
C7_EveryBlockIsFormattedConcatenation ==
  ExtractDone =>
    \A name \in BlockNames :
      Len(BlockSources(ast, name)) >= 2 =>
        /\ name \in DOMAIN data
        /\ data[name] = Str(SpecifiedBlock(ast, BlockSources(ast, name), name))

\* C7, amended: this holds of the blocks abstract, acknowledgments and
\* teaser, which are absent when no direct child of the root extracts to
\* them; the preamble block is the graphics-path line followed by the
\* literal texts of the preamble nodes, in document order.
C7_BlocksConcatenateInOrder ==
  ExtractDone =>
    /\ \A name \in BlockNames \ {"preamble"} :
         IF BlockSources(ast, name) = <<>> THEN name \notin DOMAIN data
         ELSE /\ name \in DOMAIN data
              /\ data[name] = Str(SpecifiedBlock(ast, BlockSources(ast, name), name))
    /\ data["preamble"] =
         Str(<<"\\graphicspath{{", "inputDir", "}}", "\n">>
             \o VerbatimBlock(ast, BlockSources(ast, "preamble")))

C7_Witness ==
  /\ ExtractDone
  /\ Len(BlockSources(ast, "acknowledgments")) = 2
  /\ ast[BlockSources(ast, "acknowledgments")[1]] # ast[BlockSources(ast, "acknowledgments")[2]]
  /\ \E k \in 1..Len(ast) : ast[k].depth = 2 /\ ast[k].name = "acknowledgments"
  /\ "acknowledgments" \in DOMAIN options.vspace

----------------------------------------------------------------------------
(* Properties of the render data (specification SpecData) *)

Marshalled == "author" \in DOMAIN data

\* C9: the author list of the render data is never empty, it is the single
\* placeholder author when the metadata has no author field, and the first
\* author is always defined.
C9_AuthorListNonEmpty ==
  Marshalled =>
    /\ data["author"].v # <<>>
    /\ data["author_first"] # Undefined
    /\ (context.metadata.author = Undefined =>
          data["author"] = List(<<[name |-> <<"Unknown Author">>]>>))

====
